---- MODULE Spec2Model ----
(***************************************************************************)
(* Model of EstimatePlaylistSize/MonteCarlo.cc: the anonymised occupancy   *)
(* sampler BallDrawer::draw_balls, the profile log-probability             *)
(* calculate_log_probability, and the two Monte Carlo drivers monte_carlo  *)
(* and monte_carlo_pvalue.                                                 *)
(*                                                                         *)
(* Numbers.  C++ `unsigned` values are modelled on Int without wrapping:   *)
(* an entry below 0 stands for the wrapped value 2^32 + entry, so "no      *)
(* unsigned underflow" reads "no entry below 0".  A C++ double that holds  *)
(* a log-probability is modelled by the exact value it is the logarithm    *)
(* of: the record [nan, num, den, pw] stands for                           *)
(*     log(num) - log(den) - log(pw)                                       *)
(* where lgamma(1 + n) is carried as n!, a sum of logarithms as a product  *)
(* and n * log(b) as b^n.  nan = TRUE stands for an IEEE NaN.              *)
(***************************************************************************)
EXTENDS Integers, Sequences, FiniteSets

\* Bounds of the driver model.
MaxBalls == 3
MaxDraws == 3
MaxRepeats == 2
\* Bounds of the counting model.
MaxBallsC == 4
MaxDrawsC == 6

VARIABLES
    mode,        \* which driver runs: "monte_carlo" or "monte_carlo_pvalue", or "count"
    num_balls,   \* argument num_balls (M)
    num_draws,   \* argument (monte_carlo) or local (monte_carlo_pvalue) num_draws (N)
    num_repeats, \* argument num_repeats (R)
    ref_dd,      \* argument ref_dd of monte_carlo_pvalue
    pc,          \* position of the driver
    dd,          \* the vector the draws are simulated in
    draw,        \* loop counter of draw_balls
    rep,         \* loop counter of the driver
    score2,      \* twice the local `score` (score only ever holds multiples of 0.5)
    consumed,    \* values distribution(rgen) returned during the current draw_balls call
    ref_lp,      \* local ref_dd_log_probability
    trace,       \* per finished trial: the profile and its log-probability
    result,      \* value returned by monte_carlo_pvalue
    anonCount,   \* counting model: profile -> number of value sequences that end in it
    labCount     \* counting model: labelled tally -> number of draw sequences that end in it

vars == <<mode, num_balls, num_draws, num_repeats, ref_dd, pc, dd, draw, rep,
          score2, consumed, ref_lp, trace, result, anonCount, labCount>>

----------------------------------------------------------------------------
\* Arithmetic helpers.

RECURSIVE Factorial(_)
\* exp(lgamma(1 + n)) = n!
Factorial(n) == IF n <= 0 THEN 1 ELSE n * Factorial(n - 1)

RECURSIVE Pow(_, _)
\* exp(e * log(b)) = b^e
Pow(b, e) == IF e = 0 THEN 1 ELSE b * Pow(b, e - 1)

----------------------------------------------------------------------------
\* calculate_log_probability.

RECURSIVE NumUniqueUpTo(_, _)
\* num_unique after the loop has run for i = 1 .. n
NumUniqueUpTo(v, n) == IF n = 0 THEN 0 ELSE NumUniqueUpTo(v, n - 1) + v[n]

NumUnique(v) == NumUniqueUpTo(v, Len(v))

RECURSIVE NumDrawsUpTo(_, _)
\* num_draws after the loop has run for i = 1 .. n
NumDrawsUpTo(v, n) == IF n = 0 THEN 0 ELSE NumDrawsUpTo(v, n - 1) + v[n] * n

NumDraws(v) == NumDrawsUpTo(v, Len(v))

RECURSIVE LogDenomNoPerm(_, _)
\* log_denom with the lgamma(1 + dd_i) term left out
LogDenomNoPerm(v, n) ==
    IF n = 0 THEN 1
    ELSE LogDenomNoPerm(v, n - 1) * Pow(Factorial(n), v[n])

RECURSIVE LogDenomUpTo(_, _)
\* exp(log_denom) after the loop has run for i = 1 .. n
LogDenomUpTo(v, n) ==
    IF n = 0 THEN 1
    ELSE LogDenomUpTo(v, n - 1) * Factorial(v[n]) * Pow(Factorial(n), v[n])

LogDenom(v) == LogDenomUpTo(v, Len(v))

\* assert(num_balls >= num_unique) fails; the assertion is compiled in (no
\* NDEBUG) and a failure aborts the process.
AssertFails(v, balls) == balls < NumUnique(v)

NaN == [nan |-> TRUE, num |-> 0, den |-> 1, pw |-> 1]

\* The value returned when the assertion holds.  With num_balls = 0 the
\* assertion leaves only num_unique = 0, hence num_draws = 0, and the last
\* term is 0 * log(0) = 0 * -inf = NaN.
calculate_log_probability(v, balls) ==
    IF balls = 0
    THEN NaN
    ELSE [nan |-> FALSE,
          num |-> Factorial(NumDraws(v)) * Factorial(balls),
          den |-> LogDenom(v) * Factorial(balls - NumUnique(v)),
          pw  |-> Pow(balls, NumDraws(v))]

\* a - b for two log-probabilities, as the sign of exp(a) - exp(b).  Two
\* finite log-probabilities of the model differ by 0 or by at least
\* log(1 + 1/(num * den * pw)) > 1e-10 within the bounds, so the tolerance
\* test fabs(a - b) < 1e-10 is equality of the exact values.
LpEqual(a, b) == ~a.nan /\ ~b.nan /\ a.num * b.den * b.pw = b.num * a.den * a.pw
LpGreater(a, b) == ~a.nan /\ ~b.nan /\ a.num * b.den * b.pw > b.num * a.den * a.pw
LpIsZero(a) == ~a.nan /\ a.num = a.den * a.pw

----------------------------------------------------------------------------
\* BallDrawer.

\* The distribution built as (0, num_balls) instead of (0, num_balls - 1).
BallRangeIncl(balls) == 0 .. balls

\* Values uniform_int_distribution<unsigned>(0, num_balls - 1) can return.
\* With num_balls = 0 the upper end wraps to 2^32 - 1; every value above
\* MaxDraws behaves like MaxDraws + 1 (it is never below the running sum).
BallRange(balls) == IF balls = 0 THEN 0 .. (MaxDraws + 1) ELSE 0 .. (balls - 1)

RECURSIVE ScanBinLe(_, _, _, _)
\* The inner loop with the test written ball <= sum.
ScanBinLe(v, ball, bin, sum) ==
    IF bin >= Len(v) THEN bin
    ELSE IF ball <= sum + v[bin + 1] THEN bin
    ELSE ScanBinLe(v, ball, bin + 1, sum + v[bin + 1])

RECURSIVE ScanBin(_, _, _, _)
\* The inner for loop: the first bin whose cumulative sum exceeds ball,
\* or dd.size() when there is none.  bin is 0-based as in the source.
ScanBin(v, ball, bin, sum) ==
    IF bin >= Len(v) THEN bin
    ELSE IF ball < sum + v[bin + 1] THEN bin
    ELSE ScanBin(v, ball, bin + 1, sum + v[bin + 1])

\* draw_balls without its dd.clear().
ClearKeep(v) == v

\* dd.clear()
Clear(v) == << >>

\* dd.resize(n) on a vector that is not longer than n
RECURSIVE Resize(_, _)
Resize(v, n) == IF Len(v) >= n THEN v ELSE Resize(Append(v, 0), n)

\* The iteration without --dd[bin].
DrawStepNoDec(v, ball) ==
    LET found == ScanBin(v, ball, 0, 0)
        hit   == found # Len(v)
        bin   == IF hit THEN found + 1 ELSE 0
        v2    == IF bin = Len(v) THEN Resize(v, bin + 1) ELSE v
    IN  [v2 EXCEPT ![bin + 1] = @ + 1]

\* The iteration with dd.resize(bin + 2).
DrawStepResize2(v, ball) ==
    LET found == ScanBin(v, ball, 0, 0)
        hit   == found # Len(v)
        v1    == IF hit THEN [v EXCEPT ![found + 1] = @ - 1] ELSE v
        bin   == IF hit THEN found + 1 ELSE 0
        v2    == IF bin = Len(v1) THEN Resize(v1, bin + 2) ELSE v1
    IN  [v2 EXCEPT ![bin + 1] = @ + 1]

\* One iteration of the outer loop of draw_balls.
DrawStep(v, ball) ==
    LET found == ScanBin(v, ball, 0, 0)
        hit   == found # Len(v)
        v1    == IF hit THEN [v EXCEPT ![found + 1] = @ - 1] ELSE v
        bin   == IF hit THEN found + 1 ELSE 0
        v2    == IF bin = Len(v1) THEN Resize(v1, bin + 1) ELSE v1
    IN  [v2 EXCEPT ![bin + 1] = @ + 1]

RECURSIVE DrawAll(_, _)
\* draw_balls on a fresh vector, for the values rs in order
DrawAll(rs, n) == IF n = 0 THEN << >> ELSE DrawStep(DrawAll(rs, n - 1), rs[n])

----------------------------------------------------------------------------
\* monte_carlo_pvalue: the scoring of one trial.

\* The scoring with `else if (diff > 0)` written `if (diff >= 0)`.
ScoreIncFallThrough(ref, sim) ==
    (IF LpEqual(ref, sim) THEN 1 ELSE 0)
    + (IF LpEqual(ref, sim) \/ LpGreater(ref, sim) THEN 2 ELSE 0)

\* The scoring with the difference taken the other way round.
ScoreIncSwapped(ref, sim) ==
    IF LpEqual(ref, sim) THEN 1
    ELSE IF LpGreater(sim, ref) THEN 2
    ELSE 0

\* What one trial adds to 2 * score, given ref_dd_log_probability and
\* dd_log_probability.  Every comparison with a NaN is false.
ScoreInc(ref, sim) ==
    IF LpEqual(ref, sim) THEN 1
    ELSE IF LpGreater(ref, sim) THEN 2
    ELSE 0

\* score / num_repeats, as the fraction num / den; 0.0 / 0 is NaN.
Quotient(s2, repeats) ==
    IF repeats = 0 THEN [nan |-> TRUE, num |-> 0, den |-> 1]
    ELSE [nan |-> FALSE, num |-> s2, den |-> 2 * repeats]

----------------------------------------------------------------------------
\* The drivers.

\* Argument vectors of monte_carlo_pvalue: every vector of at most MaxDraws
\* entries that stands for at most MaxDraws draws (zero bins anywhere).
RefProfiles ==
    {v \in UNION {[1 .. n -> 0 .. MaxDraws] : n \in 0 .. MaxDraws} :
        NumDraws(v) <= MaxDraws}

NoResult == [nan |-> FALSE, num |-> 0, den |-> 1]

Init ==
    /\ mode \in {"monte_carlo", "monte_carlo_pvalue"}
    /\ num_balls \in 0 .. MaxBalls
    /\ num_repeats \in 0 .. MaxRepeats
    /\ IF mode = "monte_carlo"
       THEN num_draws \in 0 .. MaxDraws /\ ref_dd = << >>
       ELSE num_draws = 0 /\ ref_dd \in RefProfiles
    /\ pc = "call"
    /\ dd = << >>
    /\ draw = 0
    /\ rep = 0
    /\ score2 = 0
    /\ consumed = << >>
    /\ ref_lp = NoResult
    /\ trace = << >>
    /\ result = NoResult
    /\ anonCount = << >>
    /\ labCount = << >>

\* monte_carlo up to its loop: the drawer, and dd.resize(num_draws).
MonteCarloEnter ==
    /\ pc = "call"
    /\ mode = "monte_carlo"
    /\ dd' = Resize(dd, num_draws)
    /\ pc' = "loop"
    /\ UNCHANGED <<mode, num_balls, num_draws, num_repeats, ref_dd, draw, rep,
                   score2, consumed, ref_lp, trace, result, anonCount, labCount>>

\* monte_carlo_pvalue up to its loop: the drawer, the reference
\* log-probability (whose assertion may abort), num_draws, dd.resize, score.
PvalueEnter ==
    /\ pc = "call"
    /\ mode = "monte_carlo_pvalue"
    /\ IF AssertFails(ref_dd, num_balls)
       THEN /\ pc' = "abort_ref"
            /\ UNCHANGED <<ref_lp, num_draws, dd, score2>>
       ELSE /\ ref_lp' = calculate_log_probability(ref_dd, num_balls)
            /\ num_draws' = NumDraws(ref_dd)
            /\ dd' = Resize(dd, NumDraws(ref_dd))
            /\ score2' = 0
            /\ pc' = "loop"
    /\ UNCHANGED <<mode, num_balls, num_repeats, ref_dd, draw, rep, consumed,
                   trace, result, anonCount, labCount>>

\* The driver calls draw_balls: dd.clear() and the draw counter at 0.
BeginTrial ==
    /\ pc = "loop"
    /\ rep < num_repeats
    /\ dd' = Clear(dd)
    /\ draw' = 0
    /\ consumed' = << >>
    /\ pc' = "drawing"
    /\ UNCHANGED <<mode, num_balls, num_draws, num_repeats, ref_dd, rep, score2,
                   ref_lp, trace, result, anonCount, labCount>>

\* One iteration of the loop of draw_balls.
DrawOne ==
    /\ pc = "drawing"
    /\ draw < num_draws
    /\ \E ball \in BallRange(num_balls) :
          /\ dd' = DrawStep(dd, ball)
          /\ consumed' = Append(consumed, ball)
    /\ draw' = draw + 1
    /\ UNCHANGED <<mode, num_balls, num_draws, num_repeats, ref_dd, pc, rep,
                   score2, ref_lp, trace, result, anonCount, labCount>>

\* draw_balls returns; the driver computes the log-probability of the
\* simulated profile (whose assertion may abort), prints it (monte_carlo)
\* or scores it (monte_carlo_pvalue), and ends the iteration.
EndTrial ==
    /\ pc = "drawing"
    /\ draw = num_draws
    /\ IF AssertFails(dd, num_balls)
       THEN /\ pc' = "abort_sim"
            /\ UNCHANGED <<rep, score2, trace>>
       ELSE LET lp == calculate_log_probability(dd, num_balls)
            IN  /\ trace' = Append(trace, [dd |-> dd, lp |-> lp])
                /\ score2' = IF mode = "monte_carlo_pvalue"
                             THEN score2 + ScoreInc(ref_lp, lp)
                             ELSE score2
                /\ rep' = rep + 1
                /\ pc' = "loop"
    /\ UNCHANGED <<mode, num_balls, num_draws, num_repeats, ref_dd, dd, draw,
                   consumed, ref_lp, result, anonCount, labCount>>

\* The loop of the driver ends; monte_carlo_pvalue returns score / num_repeats.
Return ==
    /\ pc = "loop"
    /\ rep = num_repeats
    /\ result' = IF mode = "monte_carlo_pvalue"
                 THEN Quotient(score2, num_repeats)
                 ELSE result
    /\ pc' = "done"
    /\ UNCHANGED <<mode, num_balls, num_draws, num_repeats, ref_dd, dd, draw, rep,
                   score2, consumed, ref_lp, trace, anonCount, labCount>>

Next ==
    \/ MonteCarloEnter
    \/ PvalueEnter
    \/ BeginTrial
    \/ DrawOne
    \/ EndTrial
    \/ Return

Spec == Init /\ [][Next]_vars

----------------------------------------------------------------------------
\* The counting model: draw_balls applied to every value sequence at once,
\* next to the labelled process it is meant to stand for.

RECURSIVE SumOver(_, _)
\* the sum of f[x] over the pairs <<x, y>> of S
SumOver(S, f) ==
    IF S = {} THEN 0
    ELSE LET e == CHOOSE x \in S : TRUE
         IN  f[e[1]] + SumOver(S \ {e}, f)

\* One draw of the labelled process: item i is drawn once more.
LabelStep(t, i) == [t EXCEPT ![i] = @ + 1]

\* The multiplicity tally of a labelled count vector: entry m is the number
\* of items drawn exactly m times, up to the largest multiplicity.
Tally(t) ==
    LET maxm == IF DOMAIN t = {} THEN 0
                ELSE CHOOSE m \in {t[i] : i \in DOMAIN t} :
                        \A i \in DOMAIN t : t[i] <= m
    IN  [m \in 1 .. maxm |-> Cardinality({i \in DOMAIN t : t[i] = m})]

\* The profiles reached after one more iteration of draw_balls, each with
\* the number of value sequences that lead to it.
PushDraw(cnt, balls) ==
    LET targets == {DrawStep(v, b) : v \in DOMAIN cnt, b \in BallRange(balls)}
    IN  [q \in targets |->
            SumOver({vb \in (DOMAIN cnt) \X BallRange(balls) :
                        DrawStep(vb[1], vb[2]) = q}, cnt)]

\* The labelled count vectors reached after one more labelled draw, each with
\* the number of draw sequences that lead to it.
PushLabel(cnt, balls) ==
    LET targets == {LabelStep(t, i) : t \in DOMAIN cnt, i \in 1 .. balls}
    IN  [u \in targets |->
            SumOver({ti \in (DOMAIN cnt) \X (1 .. balls) :
                        LabelStep(ti[1], ti[2]) = u}, cnt)]

InitC ==
    /\ mode = "count"
    /\ num_balls \in 1 .. MaxBallsC
    /\ num_draws \in 0 .. MaxDrawsC
    /\ num_repeats = 1
    /\ ref_dd = << >>
    /\ pc = "drawing"
    /\ dd = << >>
    /\ draw = 0
    /\ rep = 0
    /\ score2 = 0
    /\ consumed = << >>
    /\ ref_lp = NoResult
    /\ trace = << >>
    /\ result = NoResult
    /\ anonCount = [p \in {Clear(dd)} |-> 1]
    /\ labCount = [t \in {[i \in 1 .. num_balls |-> 0]} |-> 1]

\* One iteration of the loop of draw_balls, for every profile reached so far
\* and every value of the distribution; one labelled draw, for every tally
\* reached so far and every item.
CountDraw ==
    /\ mode = "count"
    /\ draw < num_draws
    /\ anonCount' = PushDraw(anonCount, num_balls)
    /\ labCount' = PushLabel(labCount, num_balls)
    /\ draw' = draw + 1
    /\ UNCHANGED <<mode, num_balls, num_draws, num_repeats, ref_dd, pc, dd, rep,
                   score2, consumed, ref_lp, trace, result>>

NextC == CountDraw

SpecCount == InitC /\ [][NextC]_vars

----------------------------------------------------------------------------
\* Properties.

\* dd holds the profile of a draw_balls call that is running or has returned.
InTrial ==
    \/ pc \in {"drawing", "abort_sim"}
    \/ pc \in {"loop", "done"} /\ rep > 0

\* draw_balls has returned at least once.
TrialEnded ==
    \/ pc = "abort_sim"
    \/ pc \in {"loop", "done"} /\ rep > 0

\* C1: conservation of draws.  For num_balls >= 1, after k completed draws of
\* a draw_balls call the weighted sum of the profile, sum of m * dd[m-1], is
\* exactly k, no bin has gone below zero, and when the call has returned the
\* weighted sum is num_draws.
C1_Conservation ==
    (InTrial /\ num_balls >= 1) =>
        /\ NumDraws(dd) = draw
        /\ \A i \in 1 .. Len(dd) : dd[i] >= 0
        /\ TrialEnded => NumDraws(dd) = num_draws

\* A call has returned after a draw that moved an item to a higher bin.
C1_Witness ==
    /\ pc = "done"
    /\ num_balls >= 1
    /\ draw >= 3
    /\ Len(dd) >= 2

\* C2: unique-item bound.  For num_balls >= 1 the number of distinct items of
\* the profile, sum of dd[m-1], never exceeds num_balls during or after
\* draw_balls, and the assertion of calculate_log_probability never fails on
\* a simulated profile.
C2_UniqueBound ==
    num_balls >= 1 =>
        /\ NumUnique(dd) <= num_balls
        /\ pc # "abort_sim"

\* A simulated profile that uses every item, after more draws than items,
\* has passed the assertion.
C2_Witness ==
    /\ pc = "done"
    /\ num_balls >= 2
    /\ num_draws > num_balls
    /\ NumUnique(dd) = num_balls
    /\ Len(trace) >= 1

\* The number of value sequences that end in profile p.
AnonOf(p) == IF p \in DOMAIN anonCount THEN anonCount[p] ELSE 0

\* The number of labelled draw sequences whose tally is p.
LabOf(p) ==
    SumOver({tx \in (DOMAIN labCount) \X {0} : Tally(tx[1]) = p}, labCount)

\* C3: the anonymised sampler is distributionally equivalent to labelled
\* sampling.  After k draws, for every profile p, the number of value
\* sequences in [0, M)^k for which draw_balls ends in p equals the number of
\* length-k draw sequences over M labelled items whose multiplicity tally
\* is p.
C3_Equivalence ==
    mode = "count" =>
        \A p \in (DOMAIN anonCount) \cup {Tally(t) : t \in DOMAIN labCount} :
            AnonOf(p) = LabOf(p)

\* Several profiles are reachable and some item may have been drawn again.
C3_Witness ==
    /\ mode = "count"
    /\ draw >= 4
    /\ num_balls = 2
    /\ Cardinality(DOMAIN anonCount) >= 3

\* C4: monte_carlo_pvalue returns a value in [0, 1].  After rep finished
\* trials the accumulator is between 0 and rep, and for num_repeats >= 1 the
\* returned score / num_repeats is a number between 0 and 1 inclusive.
C4_Range ==
    (mode = "monte_carlo_pvalue" /\ pc \in {"loop", "drawing", "done"}) =>
        /\ 0 <= score2
        /\ score2 <= 2 * rep
        /\ (pc = "done" /\ num_repeats >= 1) =>
              /\ ~result.nan
              /\ 0 <= result.num
              /\ result.num <= result.den

\* A run of two or more trials that returns exactly 1.
C4_Witness ==
    /\ mode = "monte_carlo_pvalue"
    /\ pc = "done"
    /\ num_repeats >= 2
    /\ ~result.nan
    /\ result.num = result.den

RECURSIVE SumWeights(_, _)
\* the sum over the profiles p of S of exp(log_probability(p, M)) * M^N
SumWeights(S, balls) ==
    IF S = {} THEN 0
    ELSE LET p  == CHOOSE x \in S : TRUE
             lp == calculate_log_probability(p, balls)
         IN  (lp.num \div lp.den) + SumWeights(S \ {p}, balls)

\* C5: probability normalisation.  Over the profiles p that draw_balls can
\* reach with k draws into M items, exp(log_probability(p, M)) sums to 1: each
\* log-probability is the logarithm of an integer count over M^k, and the
\* counts sum to M^k.
C5_Normalization ==
    mode = "count" =>
        /\ \A p \in DOMAIN anonCount :
              LET lp == calculate_log_probability(p, num_balls)
              IN  /\ ~lp.nan
                  /\ lp.pw = Pow(num_balls, draw)
                  /\ lp.num % lp.den = 0
        /\ SumWeights(DOMAIN anonCount, num_balls) = Pow(num_balls, draw)

\* The case M = 3, N = 3 of the specification, or a larger one.
C5_Witness ==
    /\ mode = "count"
    /\ num_balls >= 3
    /\ draw >= 3
    /\ draw = num_draws
    /\ Cardinality(DOMAIN anonCount) >= 3

\* C6: every precondition violation is fatal.  A driver that was entered with
\* num_balls = 0, or monte_carlo_pvalue entered with num_repeats = 0, never
\* returns to its caller.
C6_PreconditionsFatal ==
    (num_balls = 0 \/ (mode = "monte_carlo_pvalue" /\ num_repeats = 0)) =>
        pc # "done"

\* C7: boundary case.  draw_balls with num_draws = 0 leaves the empty profile
\* for num_balls >= 1, and the log-probability of the empty profile is exactly
\* 0 for every num_balls >= 0.
C7_Boundary ==
    /\ (TrialEnded /\ num_draws = 0 /\ num_balls >= 1) => dd = << >>
    /\ \A i \in 1 .. Len(trace) :
          trace[i].dd = << >> => LpIsZero(trace[i].lp)
    /\ (mode = "monte_carlo_pvalue" /\ pc \in {"loop", "drawing", "done"}
            /\ ref_dd = << >>) => LpIsZero(ref_lp)

\* C8: no carry-over between trials.  The profile of a draw_balls call, while
\* it runs and after it has returned, is the profile that the values consumed
\* during that call produce on a fresh vector: it does not depend on what the
\* reused, pre-sized buffer held before the call.
C8_NoCarryOver ==
    InTrial =>
        /\ Len(consumed) = draw
        /\ dd = DrawAll(consumed, Len(consumed))

\* A call that started on a buffer holding a longer profile than it produced.
C8_Witness ==
    /\ pc = "loop"
    /\ Len(trace) >= 2
    /\ Len(trace[1].dd) > Len(trace[2].dd)
    /\ dd = trace[2].dd

\* After at least one draw the last bin holds an item and the profile is no
\* longer than the number of draws made.
NoTrailingZero ==
    (InTrial /\ draw >= 1) =>
        /\ Len(dd) >= 1
        /\ dd[Len(dd)] >= 1
        /\ Len(dd) <= draw

\* Within one draw_balls call the profile grows by at most one position per
\* draw and never shrinks.
GrowsByOne ==
    (pc = "drawing" /\ pc' = "drawing") =>
        /\ Len(dd') >= Len(dd)
        /\ Len(dd') <= Len(dd) + 1

\* C9: no trailing zero bins.  In every state of draw_balls after at least one
\* draw the last entry of dd is >= 1, so the length of the profile is the
\* largest multiplicity present and at most the number of draws made; the
\* profile grows by at most one position per draw and never shrinks within a
\* trial.
C9_NoTrailingZeros == [](NoTrailingZero) /\ [][GrowsByOne]_vars

\* A profile of length 3 with empty lower bins.
C9_Witness ==
    /\ pc = "drawing"
    /\ Len(dd) >= 3
    /\ dd[1] = 0
    /\ dd[2] = 0

\* What the scoring rule gives a trial: 0.5 for a tie, 1 when the reference
\* is the more probable, 0 when the simulated profile is; counted in halves.
Contribution2(ref, sim) ==
    IF LpEqual(ref, sim) THEN 1
    ELSE IF LpGreater(ref, sim) THEN 2
    ELSE IF LpGreater(sim, ref) THEN 0
    ELSE -1

RECURSIVE SumContributions(_, _, _)
SumContributions(ref, tr, n) ==
    IF n = 0 THEN 0
    ELSE SumContributions(ref, tr, n - 1) + Contribution2(ref, tr[n].lp)

\* C10: the scoring rule.  When monte_carlo_pvalue returns, for num_balls >= 1,
\* exactly num_repeats trials were run, each with the number of draws the
\* reference profile stands for, the result is the sum of the per-trial
\* contributions divided by num_repeats, and it is exactly 0.5 when every one
\* of the num_repeats >= 1 trials tied.
C10_ScoringRule ==
    (mode = "monte_carlo_pvalue" /\ pc = "done" /\ num_balls >= 1) =>
        /\ Len(trace) = num_repeats
        /\ \A i \in 1 .. Len(trace) : NumDraws(trace[i].dd) = NumDraws(ref_dd)
        /\ num_repeats >= 1 =>
              /\ ~result.nan
              /\ result.num = SumContributions(ref_lp, trace, Len(trace))
              /\ result.den = 2 * num_repeats
              /\ (\A i \in 1 .. Len(trace) : LpEqual(ref_lp, trace[i].lp))
                    => 2 * result.num = result.den

\* A returned run with a tied trial and a trial less probable than the
\* reference.
C10_Witness ==
    /\ mode = "monte_carlo_pvalue"
    /\ pc = "done"
    /\ num_balls >= 1
    /\ \E i \in 1 .. Len(trace) : LpEqual(ref_lp, trace[i].lp)
    /\ \E i \in 1 .. Len(trace) : LpGreater(ref_lp, trace[i].lp)

====
